---- MODULE Spec2Model ----
(***************************************************************************)
(* A model of pset.py: the configuration engine Config (schema, default    *)
(* config, discovered override files, command-line arguments, typed        *)
(* getters).                                                                *)
(*                                                                          *)
(* Python strings are sequences of one-character strings, so that the      *)
(* character-level operations of the code (startswith, "=" in value,       *)
(* lower/upper, substring tests, splitext) are computed, not assumed.      *)
(* Python values are records [t |-> type, v |-> payload].                  *)
(***************************************************************************)
EXTENDS Integers, Sequences, FiniteSets, TLC

VARIABLES
    YAML_AVAILABLE,  \* whether "import yaml" succeeded
    fs,              \* the files on disk: path -> parsed content
    cwd,             \* os.getcwd()
    argv,            \* sys.argv[1:]
    config_keys,     \* Config.config_keys
    default_config,  \* Config.default_config
    user_configs,    \* Config.user_configs
    cl_config,       \* Config.cl_config
    warn_fatal,      \* Config.warn_fatal: "unset", "True" or "False"
    stderr,          \* what print_stderr wrote during the operation
    pc,              \* position of the running operation
    error,           \* the exception that ended it ("none" when none did)
    cur_dir,         \* read_user_config: local cur_dir
    listed,          \* read_user_config: the directories os.listdir was given
    key,             \* read_command_line_arguments: local key
    values,          \* read_command_line_arguments: local values
    argi,            \* read_command_line_arguments: index into args + [None]
    call,            \* the last getter call and its outcome
    locals           \* generate_document: its local lists and sets

vars == <<YAML_AVAILABLE, fs, cwd, argv, config_keys, default_config,
          user_configs, cl_config, warn_fatal, stderr, pc, error, cur_dir,
          listed, key, values, argi, call, locals>>

----------------------------------------------------------------------------
(* Bounds of the model. *)

\* longest raw list drawn for a list-valued key
MaxListLen == 3
\* most discovered sources drawn for the accessor
MaxFiles == 1
\* most command-line arguments drawn
MaxArgs == 4
\* deepest current working directory drawn (0 is the root)
MaxDepth == 2

----------------------------------------------------------------------------
(* Python values. *)

PyNone == [t |-> "None", v |-> <<>>]
PyBool(b) == [t |-> "bool", v |-> b]
PyInt(n) == [t |-> "int", v |-> n]
PyStr(s) == [t |-> "str", v |-> s]
PyList(items) == [t |-> "list", v |-> items]
\* a dict keeps insertion order: a sequence of <<key, value>> pairs
PyDict(pairs) == [t |-> "dict", v |-> pairs]
\* an attribute or local that holds nothing yet
Unset == [t |-> "unset", v |-> <<>>]

True == PyBool(TRUE)
False == PyBool(FALSE)

\* Python ==: bool is an int (True == 1, False == 0); otherwise by type and value
PyNum(a) == IF a.t = "bool" THEN (IF a.v THEN 1 ELSE 0) ELSE a.v
PyEq(a, b) ==
    IF a.t \in {"bool", "int"} /\ b.t \in {"bool", "int"}
    THEN PyNum(a) = PyNum(b)
    ELSE a.t = b.t /\ a.v = b.v

Hashable(a) == a.t \notin {"list", "dict"}

----------------------------------------------------------------------------
(* Strings. *)

LowerCase == <<"a","b","c","d","e","f","g","h","i","j","k","l","m",
               "n","o","p","q","r","s","t","u","v","w","x","y","z">>
UpperCase == <<"A","B","C","D","E","F","G","H","I","J","K","L","M",
               "N","O","P","Q","R","S","T","U","V","W","X","Y","Z">>
Digits == <<"0","1","2","3","4","5","6","7","8","9">>

LowerChar(c) ==
    IF \E i \in 1..26 : UpperCase[i] = c
    THEN LowerCase[CHOOSE i \in 1..26 : UpperCase[i] = c] ELSE c
UpperChar(c) ==
    IF \E i \in 1..26 : LowerCase[i] = c
    THEN UpperCase[CHOOSE i \in 1..26 : LowerCase[i] = c] ELSE c
\* str.lower(), str.upper()
Lower(s) == [i \in 1..Len(s) |-> LowerChar(s[i])]
Upper(s) == [i \in 1..Len(s) |-> UpperChar(s[i])]

\* s.startswith(p)
StartsWith(s, p) == Len(p) <= Len(s) /\ SubSeq(s, 1, Len(p)) = p
\* sub in s, for two strings
Contains(s, sub) ==
    \E i \in 1..(Len(s) - Len(sub) + 1) : SubSeq(s, i, i + Len(sub) - 1) = sub
\* s[n:]
Drop(s, n) == SubSeq(s, n + 1, Len(s))
\* seq[a:b] of Python, 0-based and clipped
Slice(s, a, b) == SubSeq(s, a + 1, IF b < Len(s) THEN b ELSE Len(s))

RECURSIVE Join(_, _)
\* sep.join(parts)
Join(sep, parts) ==
    IF Len(parts) = 0 THEN <<>>
    ELSE IF Len(parts) = 1 THEN parts[1]
    ELSE parts[1] \o sep \o Join(sep, Tail(parts))

RECURSIVE IntStr(_)
IntStr(n) ==
    IF n < 10 THEN <<Digits[n + 1]>>
    ELSE IntStr(n \div 10) \o <<Digits[(n % 10) + 1]>>

RECURSIVE Str(_)
RECURSIVE Repr(_)
\* str(val)
Str(val) ==
    CASE val.t = "str" -> val.v
      [] val.t = "bool" -> IF val.v THEN <<"T","r","u","e">>
                                    ELSE <<"F","a","l","s","e">>
      [] val.t = "None" -> <<"N","o","n","e">>
      [] val.t = "int" -> IntStr(val.v)
      [] val.t = "list" ->
            <<"[">> \o Join(<<",", " ">>,
                            [i \in 1..Len(val.v) |-> Repr(val.v[i])]) \o <<"]">>
      [] val.t = "dict" ->
            <<"{">> \o Join(<<",", " ">>,
                            [i \in 1..Len(val.v) |->
                                Repr(val.v[i][1]) \o <<":", " ">>
                                    \o Repr(val.v[i][2])]) \o <<"}">>
\* repr(val), for strings that hold no quote or escape
Repr(val) == IF val.t = "str" THEN <<"'">> \o val.v \o <<"'">> ELSE Str(val)

----------------------------------------------------------------------------
(* dict and container operations. *)

DictHas(d, k) == \E i \in 1..Len(d.v) : PyEq(d.v[i][1], k)
DictGet(d, k) == d.v[CHOOSE i \in 1..Len(d.v) : PyEq(d.v[i][1], k)][2]
\* d[k] = x: an existing key keeps its position
DictSet(d, k, x) ==
    IF DictHas(d, k)
    THEN PyDict([i \in 1..Len(d.v) |->
                    IF PyEq(d.v[i][1], k) THEN <<d.v[i][1], x>> ELSE d.v[i]])
    ELSE PyDict(Append(d.v, <<k, x>>))
DictKeys(d) == [i \in 1..Len(d.v) |-> d.v[i][1]]
DictValues(d) == [i \in 1..Len(d.v) |-> d.v[i][2]]
DictDel(d, k) == PyDict(SelectSeq(d.v, LAMBDA p : ~PyEq(p[1], k)))

\* "x in c" raises TypeError: an unhashable x in a dict, a non-string in a string
InRaises(x, c) ==
    \/ c.t = "dict" /\ ~Hashable(x)
    \/ c.t = "str" /\ x.t # "str"
\* "x in c" when it does not raise: key of a dict, element of a list, substring
In(x, c) ==
    CASE c.t = "dict" -> DictHas(c, x)
      [] c.t = "list" -> \E i \in 1..Len(c.v) : PyEq(c.v[i], x)
      [] c.t = "str" -> Contains(c.v, x.v)

----------------------------------------------------------------------------
(* Diagnostics. *)

\* a message: the format string, the formatted arguments, the context string
\* appended to it and the text appended after that
Msg(text, args, context, tail) ==
    [text |-> text, args |-> args, context |-> context, tail |-> tail]
\* a context string of get: a format string and its formatted arguments
Context(text, args) == [text |-> text, args |-> args]
NoContext == Context("", <<>>)

\* Config.warn under warn_fatal = wf, with out already printed: what is
\* raised ("none" when nothing is) and what has been printed afterwards
warn(wf, out, msg) ==
    IF wf = "unset" THEN [exc |-> "AttributeError", out |-> out]
    ELSE IF wf = "True" THEN [exc |-> "AssertionError", out |-> out]
    ELSE [exc |-> "none", out |-> Append(out, msg)]

\* the outcome of a conversion or of a lookup
Returned(val, out) == [exc |-> "none", value |-> val, out |-> out]
Raised(exc, out) == [exc |-> exc, value |-> PyNone, out |-> out]

\* whether an exception object has the attribute "message": Exception and
\* its subclass ConfigConversionError define none
HasMessage == FALSE

----------------------------------------------------------------------------
(* The coercions: the convert closures of the getters. *)

S_y == <<"y">>
S_yes == <<"y","e","s">>
S_true == <<"t","r","u","e">>
S_on == <<"o","n">>
S_1 == <<"1">>
S_n == <<"n">>
S_no == <<"n","o">>
S_false == <<"f","a","l","s","e">>
S_off == <<"o","f","f">>
S_0 == <<"0">>

TrueWords == {S_y, S_yes, S_true, S_on, S_1}
FalseWords == {S_n, S_no, S_false, S_off, S_0}

\* get_boolean.convert
ConvertBoolean(val, out) ==
    IF In(val, PyList(<<True, False, PyNone>>)) THEN Returned(val, out)
    ELSE IF Lower(Str(val)) \in TrueWords THEN Returned(True, out)
    ELSE IF Upper(Str(val)) \in FalseWords THEN Returned(False, out)
    ELSE Raised("ConfigConversionError", out)

\* get_string.convert
ConvertString(val, out) == Returned(PyStr(Str(val)), out)

\* get_enum.convert
ConvertEnum(val, allowed_values, out) ==
    IF In(PyStr(Str(val)), PyList(allowed_values))
    THEN Returned(PyStr(Str(val)), out)
    ELSE Raised("ConfigConversionError", out)

\* whether "for x in val" can run
Iterable(val) == val.t \in {"list", "str", "dict"}
\* the elements "for x in val" visits
Elements(val) ==
    CASE val.t = "list" -> val.v
      [] val.t = "str" -> [i \in 1..Len(val.v) |-> PyStr(<<val.v[i]>>)]
      [] val.t = "dict" -> DictKeys(val)

\* get_string_list.convert
ConvertStringList(vals, out) ==
    IF ~Iterable(vals) THEN Raised("TypeError", out)
    ELSE Returned(PyList([i \in 1..Len(Elements(vals)) |->
                             PyStr(Str(Elements(vals)[i]))]), out)

IsDuplicateNever(unique, val, seen) == FALSE
\* get_enum_list.convert: the test "unique and val in seen"
IsDuplicate(unique, val, seen) == unique /\ val \in seen

RECURSIVE EnumListLoop(_, _, _, _, _, _, _, _, _, _)
\* get_enum_list.convert: the loop over vals, from element i on
EnumListLoop(k, vals, i, allowed_values, unique, context, wf, result, seen, out) ==
    IF i > Len(vals) THEN Returned(PyList(result), out)
    ELSE
      LET val == PyStr(Str(vals[i])) IN
      IF IsDuplicate(unique, val, seen) THEN
        LET w == warn(wf, out,
                      Msg("ignoring duplicate value '{}' for key '{}'",
                          <<val.v, Str(k)>>, context, <<>>)) IN
        IF w.exc # "none" THEN Raised(w.exc, w.out)
        ELSE EnumListLoop(k, vals, i + 1, allowed_values, unique, context,
                          wf, result, seen, w.out)
      ELSE IF In(val, PyList(allowed_values)) THEN
        EnumListLoop(k, vals, i + 1, allowed_values, unique, context, wf,
                     Append(result, val), seen \cup {val}, out)
      ELSE
        LET w == warn(wf, out,
                      Msg("ignoring invalid value '{}' for key '{}': must be one of: ",
                          <<>>, NoContext,
                          Join(<<",", " ">>,
                               [j \in 1..Len(allowed_values) |->
                                   allowed_values[j].v]))) IN
        IF w.exc # "none" THEN Raised(w.exc, w.out)
        ELSE EnumListLoop(k, vals, i + 1, allowed_values, unique, context,
                          wf, result, seen, w.out)

\* get_enum_list.convert
ConvertEnumList(k, vals, allowed_values, unique, context, wf, out) ==
    IF vals.t # "list" THEN Raised("ConfigConversionError", out)
    ELSE EnumListLoop(k, vals.v, 1, allowed_values, unique, context, wf,
                      <<>>, {}, out)

RECURSIVE EnumMapLoop(_, _, _, _, _, _, _, _)
\* get_enum_enum_map.convert: the loop over kv_map.items(), from item i on
EnumMapLoop(items, i, allowed_keys, allowed_values, context, wf, result, out) ==
    IF i > Len(items) THEN Returned(result, out)
    ELSE
      LET k == PyStr(Str(items[i][1]))
          val == PyStr(Str(items[i][2]))
          msg == IF In(k, result)
                 THEN Msg("ignoring extra value '{}' for key '{}'",
                          <<val.v, k.v>>, context, <<>>)
                 ELSE IF ~In(k, PyList(allowed_keys))
                 THEN Msg("ignoring value '{}' for invalid key '{}': key key must be one of: ",
                          <<val.v, k.v>>, NoContext,
                          Join(<<",", " ">>,
                               [j \in 1..Len(allowed_keys) |->
                                   allowed_keys[j].v]))
                 ELSE Msg("ignoring invalid value '{}' for key '{}': key value must be one of: ",
                          <<val.v, k.v>>, NoContext,
                          Join(<<",", " ">>,
                               [j \in 1..Len(allowed_values) |->
                                   allowed_values[j].v]))
      IN
      IF ~In(k, result) /\ In(k, PyList(allowed_keys))
                        /\ In(val, PyList(allowed_values))
      THEN EnumMapLoop(items, i + 1, allowed_keys, allowed_values, context,
                       wf, DictSet(result, k, val), out)
      ELSE
        LET w == warn(wf, out, msg) IN
        IF w.exc # "none" THEN Raised(w.exc, w.out)
        ELSE EnumMapLoop(items, i + 1, allowed_keys, allowed_values, context,
                         wf, result, w.out)

\* get_enum_enum_map.convert
ConvertEnumEnumMap(kv_map, allowed_keys, allowed_values, context, wf, out) ==
    IF kv_map.t # "dict" THEN Raised("ConfigConversionError", out)
    ELSE EnumMapLoop(kv_map.v, 1, allowed_keys, allowed_values, context, wf,
                     PyDict(<<>>), out)

\* a getter's convert closure applied to val: conv names the getter and
\* holds the arguments the closure captured
Convert(conv, k, val, context, wf, out) ==
    CASE conv.getter = "get_boolean" -> ConvertBoolean(val, out)
      [] conv.getter = "get_string" -> ConvertString(val, out)
      [] conv.getter = "get_enum" -> ConvertEnum(val, conv.allowed_values, out)
      [] conv.getter = "get_string_list" -> ConvertStringList(val, out)
      [] conv.getter = "get_enum_list" ->
            ConvertEnumList(k, val, conv.allowed_values, conv.unique,
                            context, wf, out)
      [] conv.getter = "get_enum_enum_map" ->
            ConvertEnumEnumMap(val, conv.allowed_keys, conv.allowed_values,
                               context, wf, out)

----------------------------------------------------------------------------
(* Config.get and the getters. *)

SourcesDefaultFirst ==
    <<[config |-> default_config,
       context |-> Context(" from default config", <<>>),
       warn_fatal |-> "True"]>>
    \o [i \in 1..Len(user_configs) |->
          [config |-> user_configs[i][1],
           context |-> Context(" from '{}'", <<Str(user_configs[i][2])>>),
           warn_fatal |-> "False"]]
    \o <<[config |-> cl_config,
          context |-> Context(" from command-line arguments", <<>>),
          warn_fatal |-> "False"]>>
\* get: the list "sources". Each entry of user_configs is the pair
\* (path, mapping) that read_user_config appended; the generator unpacks it
\* as "cfg, fname", so the source's config is the first component
Sources ==
    <<[config |-> cl_config,
       context |-> Context(" from command-line arguments", <<>>),
       warn_fatal |-> "False"]>>
    \o [i \in 1..Len(user_configs) |->
          [config |-> user_configs[i][1],
           context |-> Context(" from '{}'", <<Str(user_configs[i][2])>>),
           warn_fatal |-> "False"]]
    \o <<[config |-> default_config,
          context |-> Context(" from default config", <<>>),
          warn_fatal |-> "True"]>>

RECURSIVE GetLoop(_, _, _, _, _)
\* get: the loop over sources, from source i on, with out already printed
GetLoop(sources, k, conv, i, out) ==
    IF i > Len(sources) THEN Returned(PyNone, out)
    ELSE
      LET config == sources[i].config
          context == sources[i].context
          wf == sources[i].warn_fatal
      IN
      IF InRaises(k, config) THEN Raised("TypeError", out)
      ELSE IF ~In(k, config) THEN GetLoop(sources, k, conv, i + 1, out)
      \* config[key]: a string takes no string index
      ELSE IF config.t # "dict" THEN Raised("TypeError", out)
      ELSE
        LET r == Convert(conv, k, DictGet(config, k), context, wf, out) IN
        IF r.exc # "ConfigConversionError" THEN r
        \* the handler builds its message from e.message before it warns
        ELSE IF ~HasMessage THEN Raised("AttributeError", r.out)
        ELSE
          LET w == warn(wf, r.out,
                        Msg("ignoring invalid value '{}' for key '{}'",
                            <<Str(DictGet(config, k)), Str(k)>>, context,
                            <<":", " ">>)) IN
          IF w.exc # "none" THEN Raised(w.exc, w.out)
          ELSE GetLoop(sources, k, conv, i + 1, w.out)

\* what a getter's closure captured
Conv(getter, allowed_keys, allowed_values, unique) ==
    [getter |-> getter, allowed_keys |-> allowed_keys,
     allowed_values |-> allowed_values, unique |-> unique]

NoCall == [getter |-> "none", key |-> PyNone, conv |-> Conv("none", <<>>, <<>>, FALSE),
           exc |-> "none", value |-> PyNone]

\* generate_document is not running: it has no locals
NoLocals == [document_class_options |-> <<>>, packages |-> <<>>,
             ifs |-> {}, macros |-> {}]

\* Config.get(key, convert): how the loop over the sources ends
get(k, conv) == GetLoop(Sources, k, conv, 1, <<>>)

\* a getter that would also delete the key it looked up from the default
\* config
LeaveDropping(name, k, conv, r) ==
    /\ call' = [getter |-> name, key |-> k, conv |-> conv,
                exc |-> r.exc, value |-> r.value]
    /\ stderr' = r.out
    /\ warn_fatal' = "unset"
    /\ default_config' = DictDel(default_config, k)
    /\ UNCHANGED <<YAML_AVAILABLE, fs, cwd, argv, config_keys,
                   user_configs, cl_config, pc, error, cur_dir, listed, key,
                   values, argi, locals>>

\* a getter returns what get returned or raises what it raised; the finally
\* clause of get has deleted warn_fatal however the loop ended
Leave(name, k, conv, r) ==
    /\ call' = [getter |-> name, key |-> k, conv |-> conv,
                exc |-> r.exc, value |-> r.value]
    /\ stderr' = r.out
    /\ warn_fatal' = "unset"
    /\ UNCHANGED <<YAML_AVAILABLE, fs, cwd, argv, config_keys, default_config,
                   user_configs, cl_config, pc, error, cur_dir, listed, key,
                   values, argi, locals>>

(* The arguments the getters are called with. *)
S_class == <<"c","l","a","s","s">>
LookupKeys == {PyStr(S_class)}
ElemA == PyStr(<<"a">>)
ElemB == PyStr(<<"b">>)
ElemZ == PyStr(<<"z">>)
AllowedValues == <<ElemA, ElemB>>
AllowedKeys == <<ElemA, ElemZ>>

get_boolean ==
    /\ pc = "ready"
    /\ \E k \in LookupKeys :
         LET conv == Conv("get_boolean", <<>>, <<>>, FALSE) IN
         Leave("get_boolean", k, conv, get(k, conv))
get_string ==
    /\ pc = "ready"
    /\ \E k \in LookupKeys :
         LET conv == Conv("get_string", <<>>, <<>>, FALSE) IN
         Leave("get_string", k, conv, get(k, conv))
\* get_length is get_string, "for now"
get_length ==
    /\ pc = "ready"
    /\ \E k \in LookupKeys :
         LET conv == Conv("get_string", <<>>, <<>>, FALSE) IN
         Leave("get_length", k, conv, get(k, conv))
get_enum ==
    /\ pc = "ready"
    /\ \E k \in LookupKeys :
         LET conv == Conv("get_enum", <<>>, AllowedValues, FALSE) IN
         Leave("get_enum", k, conv, get(k, conv))
get_string_list ==
    /\ pc = "ready"
    /\ \E k \in LookupKeys :
         LET conv == Conv("get_string_list", <<>>, <<>>, FALSE) IN
         Leave("get_string_list", k, conv, get(k, conv))
get_enum_list ==
    /\ pc = "ready"
    /\ \E k \in LookupKeys, unique \in BOOLEAN :
         LET conv == Conv("get_enum_list", <<>>, AllowedValues, unique) IN
         Leave("get_enum_list", k, conv, get(k, conv))
get_enum_enum_map ==
    /\ pc = "ready"
    /\ \E k \in LookupKeys :
         LET conv == Conv("get_enum_enum_map", AllowedKeys, AllowedValues, FALSE) IN
         Leave("get_enum_enum_map", k, conv, get(k, conv))

(* The Config objects the getters are called on: what the three loaders
   may have left in cl_config, user_configs and default_config. *)
BoolStrings ==
    UNION {{w, Upper(w)} : w \in TrueWords \cup FalseWords}
    \cup {<<"m","a","y","b","e">>, <<"2">>, <<>>}
ScalarValues ==
    {PyNone, True, False, PyInt(0), PyInt(1), PyInt(2)}
    \cup {PyStr(s) : s \in BoolStrings} \cup {ElemA, ElemB, ElemZ}
ListsUpTo(n) == UNION {[1..m -> {ElemA, ElemB, ElemZ}] : m \in 0..n}
ListValues == {PyList(l) : l \in ListsUpTo(MaxListLen)}
MapValues == {PyDict(<< <<ElemA, ElemB>> >>),
              PyDict(<< <<ElemA, ElemZ>>, <<ElemB, ElemA>>, <<ElemZ, ElemA>> >>)}
ClValues == ScalarValues \cup ListValues \cup MapValues
DefaultValues == {True, ElemA, PyList(<<ElemB, ElemA>>), PyList(<<ElemA, ElemA>>)}
FileValues == {ElemB}

EmptyDict == PyDict(<<>>)
OneKey(k, val) == PyDict(<< <<k, val>> >>)
ClConfigs == {EmptyDict} \cup {OneKey(k, val) : k \in LookupKeys, val \in ClValues}
DefaultConfigs ==
    {EmptyDict} \cup {OneKey(k, val) : k \in LookupKeys, val \in DefaultValues}
FileConfigs ==
    {EmptyDict} \cup {OneKey(k, val) : k \in LookupKeys, val \in FileValues}

\* paths of discovered files, nearest directory first
S_pset_json == <<"p","s","e","t",".","j","s","o","n">>
UserPaths == << <<"/">> \o S_class \o <<"/">> \o S_pset_json,
                <<"/">> \o S_pset_json >>
\* up to MaxFiles discovered sources, nearest first
UserConfigs ==
    {u \in UNION {[1..m -> (1..Len(UserPaths)) \X FileConfigs] : m \in 0..MaxFiles} :
        \A i, j \in 1..Len(u) : i < j => u[i][1] < u[j][1]}
UserConfigList(u) == [i \in 1..Len(u) |-> <<PyStr(UserPaths[u[i][1]]), u[i][2]>>]

InitGet ==
    /\ YAML_AVAILABLE = TRUE
    /\ fs = <<>>
    /\ cwd = <<"/">>
    /\ argv = <<>>
    /\ config_keys = PyDict(<<>>)
    /\ cl_config \in ClConfigs
    /\ \E u \in UserConfigs : user_configs = UserConfigList(u)
    /\ default_config \in DefaultConfigs
    /\ warn_fatal = "unset"
    /\ stderr = <<>>
    /\ pc = "ready"
    /\ error = "none"
    /\ cur_dir = <<>>
    /\ listed = <<>>
    /\ key = Unset
    /\ values = <<>>
    /\ argi = 0
    /\ call = NoCall
    /\ locals = NoLocals

NextGet ==
    \/ get_boolean
    \/ get_string
    \/ get_length
    \/ get_enum
    \/ get_string_list
    \/ get_enum_list
    \/ get_enum_enum_map

\* the accessor: any getter, any number of times, on a constructed Config
SpecGet == InitGet /\ [][NextGet]_vars

----------------------------------------------------------------------------
(* Paths (posixpath) and the file system. *)

S_dot_pset == <<".","p","s","e","t">>
S_pset == <<"p","s","e","t">>
S_json == <<"j","s","o","n">>
S_yml == <<"y","m","l">>
S_yaml == <<"y","a","m","l">>

CONFIG_ROOTS == <<S_dot_pset, S_pset>>
JSON_EXTENSIONS == <<S_json>>
YAML_EXTENSIONS == <<S_yml, S_yaml>>
CONFIG_EXTENSIONS == JSON_EXTENSIONS \o YAML_EXTENSIONS

\* s.rfind(c), 1-based; 0 when c does not occur
LastIndexOf(s, c) ==
    IF \E i \in 1..Len(s) : s[i] = c
    THEN CHOOSE i \in 1..Len(s) : s[i] = c /\ \A j \in (i + 1)..Len(s) : s[j] # c
    ELSE 0
RECURSIVE RStrip(_, _)
\* s.rstrip(c)
RStrip(s, c) ==
    IF Len(s) > 0 /\ s[Len(s)] = c THEN RStrip(SubSeq(s, 1, Len(s) - 1), c) ELSE s
AllSlashes(s) == \A i \in 1..Len(s) : s[i] = "/"

\* os.path.splitext(p): <<root, ext>>, the extension with its dot; leading
\* dots of the file name start no extension
splitext(p) ==
    LET sep == LastIndexOf(p, "/")
        dot == LastIndexOf(p, ".")
    IN IF dot > sep /\ \E i \in (sep + 1)..(dot - 1) : p[i] # "."
       THEN <<SubSeq(p, 1, dot - 1), SubSeq(p, dot, Len(p))>>
       ELSE <<p, <<>>>>
\* os.path.split(p): <<head, tail>>
split(p) ==
    LET i == LastIndexOf(p, "/")
        head == SubSeq(p, 1, i)
    IN <<IF Len(head) > 0 /\ ~AllSlashes(head) THEN RStrip(head, "/") ELSE head,
         SubSeq(p, i + 1, Len(p))>>
\* os.path.dirname(p)
dirname(p) == split(p)[1]
\* os.path.join(a, b)
join(a, b) ==
    IF StartsWith(b, <<"/">>) THEN b
    ELSE IF Len(a) = 0 \/ a[Len(a)] = "/" THEN a \o b
    ELSE a \o <<"/">> \o b
\* os.path.realpath(p) of an absolute path on a file system without
\* symbolic links and without "." or ".." components: trailing slashes go
realpath(p) == IF AllSlashes(p) THEN <<"/">> ELSE RStrip(p, "/")

\* path_is_root
path_is_root(path) == realpath(path) = dirname(realpath(path))

\* the directory holding pset.py, and repository_file(filename)
THIS_DIR == <<"/","r">>
repository_file(filename) == join(THIS_DIR, filename)
S_desc_json == <<"d","e","s","c",".","j","s","o","n">>

\* code points order the characters the model uses
CharOrder == <<" ", "'", "-", ".", "/">> \o Digits \o <<"=">> \o UpperCase
                 \o <<"_">> \o LowerCase
Ord(c) == CHOOSE i \in 1..Len(CharOrder) : CharOrder[i] = c
\* a < b for two strings
StrLess(a, b) ==
    \E i \in 1..(Len(a) + 1) :
        /\ i <= Len(b)
        /\ SubSeq(a, 1, i - 1) = SubSeq(b, 1, i - 1)
        /\ (i = Len(a) + 1 \/ Ord(a[i]) < Ord(b[i]))
\* sorted(names)
sorted(names) ==
    [n \in 1..Cardinality(names) |->
        CHOOSE x \in names : Cardinality({y \in names : StrLess(y, x)}) = n - 1]
\* the first component of a relative path
FirstComponent(rel) ==
    IF \E i \in 1..Len(rel) : rel[i] = "/"
    THEN SubSeq(rel, 1, (CHOOSE i \in 1..Len(rel) :
                            rel[i] = "/" /\ \A j \in 1..(i - 1) : rel[j] # "/") - 1)
    ELSE rel
\* os.listdir(dir): the names of the files and directories in dir, the
\* directories being those that lead to a file of fs or to cwd
listdir(dir) ==
    LET prefix == IF dir = <<"/">> THEN dir ELSE dir \o <<"/">> IN
    {FirstComponent(Drop(q, Len(prefix))) :
        q \in {q \in DOMAIN fs \cup {cwd} :
                  StartsWith(q, prefix) /\ Len(q) > Len(prefix)}}

\* a file whose text does not parse
Malformed == [t |-> "malformed", v |-> <<>>]

----------------------------------------------------------------------------
(* load_config_file. *)

\* a sequence's elements as a set
Range(seq) == {seq[i] : i \in 1..Len(seq)}

\* what ends the try block of load_config_file when exc is raised inside
\* it: the except clause names yaml.YAMLError, which the stand-in class yaml
\* does not have, and its handler reads e.message
TryBlockRaises(exc) ==
    IF ~YAML_AVAILABLE THEN "AttributeError"
    ELSE IF exc \in {"JSONDecodeError", "YAMLError"}
    THEN (IF HasMessage THEN "none" ELSE "AttributeError")
    ELSE exc

RECURSIVE FilterLoop(_, _, _, _, _, _)
\* the loop "for key in config.values()" that ends load_config_file and
\* read_command_line_arguments, from value i on: a value that is not in the
\* schema is warned about and deleted as a key
FilterLoop(config, i, text, origin, wf, out) ==
    IF i > Len(config.v) THEN Returned(config, out)
    ELSE
      LET k == DictValues(config)[i] IN
      IF InRaises(k, config_keys) THEN Raised("TypeError", out)
      ELSE IF In(k, config_keys)
      THEN FilterLoop(config, i + 1, text, origin, wf, out)
      ELSE
        LET w == warn(wf, out, Msg(text, <<Str(k)>> \o origin, NoContext, <<>>)) IN
        IF w.exc # "none" THEN Raised(w.exc, w.out)
        ELSE IF ~Hashable(k) THEN Raised("TypeError", w.out)
        ELSE IF ~DictHas(config, k) THEN Raised("KeyError", w.out)
        \* the key is deleted; the iterator of the resized dict raises
        ELSE Raised("RuntimeError", w.out)

\* load_config_file(filename) under warn_fatal = wf, with out printed so far
load_config_file(filename, wf, out) ==
    LET ext == splitext(filename)[2]
        parsed == IF filename \in DOMAIN fs THEN fs[filename] ELSE Malformed
    IN
    IF ext \in Range(YAML_EXTENSIONS) /\ ~YAML_AVAILABLE THEN
        LET w == warn(wf, out,
                      Msg("Ignoring '{}' because PyYAML is not available",
                          <<filename>>, NoContext, <<>>)) IN
        IF w.exc # "none" THEN Raised(TryBlockRaises(w.exc), w.out)
        ELSE Returned(PyDict(<<>>), w.out)
    ELSE IF ext \notin Range(YAML_EXTENSIONS) \cup Range(JSON_EXTENSIONS) THEN
        Raised(TryBlockRaises("AssertionError"), out)
    ELSE IF filename \notin DOMAIN fs THEN
        Raised(TryBlockRaises("FileNotFoundError"), out)
    ELSE IF parsed = Malformed THEN
        LET exc == IF ext \in Range(YAML_EXTENSIONS) THEN "YAMLError"
                   ELSE "JSONDecodeError" IN
        IF TryBlockRaises(exc) # "none" THEN Raised(TryBlockRaises(exc), out)
        ELSE
          LET w == warn(wf, out,
                        Msg("Ignoring '{}' because it is malformed: {}",
                            <<filename>>, NoContext, <<>>)) IN
          IF w.exc # "none" THEN Raised(w.exc, w.out)
          ELSE Returned(PyDict(<<>>), w.out)
    ELSE IF parsed.t # "dict" THEN
        LET w == warn(wf, out,
                      Msg("Ignoring '{}' because it is not a map: {}",
                          <<filename, Repr(parsed)>>, NoContext, <<>>)) IN
        IF w.exc # "none" THEN Raised(w.exc, w.out)
        ELSE Returned(PyDict(<<>>), w.out)
    ELSE FilterLoop(parsed, 1, "Ignoring unknown key '{}' from '{}'",
                    <<filename>>, wf, out)

----------------------------------------------------------------------------
(* Config.__init__: the schema, the default config, the discovered files. *)

\* the variables that hold the inputs of the program
inputs == <<YAML_AVAILABLE, fs, cwd, argv>>

\* read_config_descriptions: desc.json is parsed and stored unvalidated
read_config_descriptions ==
    /\ pc = "start"
    /\ LET f == repository_file(S_desc_json) IN
       IF f \notin DOMAIN fs
       THEN pc' = "raised" /\ error' = "FileNotFoundError" /\ UNCHANGED config_keys
       ELSE IF fs[f] = Malformed
       THEN pc' = "raised" /\ error' = "JSONDecodeError" /\ UNCHANGED config_keys
       ELSE pc' = "schema_read" /\ config_keys' = fs[f] /\ UNCHANGED error
    /\ UNCHANGED <<inputs, default_config, user_configs, cl_config, warn_fatal,
                   stderr, cur_dir, listed, key, values, argi, call,
                   locals>>

\* read_default_config: the default file is loaded with warn_fatal set, and
\* the finally clause deletes warn_fatal
read_default_config ==
    /\ pc = "schema_read"
    /\ LET r == load_config_file(repository_file(S_pset_json), "True", stderr) IN
         /\ stderr' = r.out
         /\ IF r.exc = "none"
            THEN default_config' = r.value /\ pc' = "default_read" /\ UNCHANGED error
            ELSE pc' = "raised" /\ error' = r.exc /\ UNCHANGED default_config
    /\ warn_fatal' = "unset"
    /\ UNCHANGED <<inputs, config_keys, user_configs, cl_config, cur_dir,
                   listed, key, values, argi, call,
                   locals>>

\* read_user_config, up to the loop: the walk starts at os.getcwd()
read_user_config ==
    /\ pc = "default_read"
    /\ warn_fatal' = "False"
    /\ user_configs' = <<>>
    /\ cur_dir' = cwd
    /\ pc' = "walk"
    /\ UNCHANGED <<inputs, config_keys, default_config, cl_config, stderr,
                   error, listed, key, values, argi, call,
                   locals>>

RECURSIVE LoadMatches(_, _, _, _, _)
\* read_user_config: the loops over filenames, CONFIG_ROOTS and
\* CONFIG_EXTENSIONS, from their n-th round on: every file name that equals
\* root + "." + ext is loaded and appended as (path, mapping)
LoadMatches(dir, filenames, n, configs, out) ==
    LET R == Len(CONFIG_ROOTS)
        E == Len(CONFIG_EXTENSIONS)
    IN
    IF n > Len(filenames) * R * E THEN Returned(configs, out)
    ELSE
      LET filename == filenames[((n - 1) \div (R * E)) + 1]
          root == CONFIG_ROOTS[(((n - 1) % (R * E)) \div E) + 1]
          ext == CONFIG_EXTENSIONS[((n - 1) % E) + 1]
      IN
      IF filename # root \o <<".">> \o ext
      THEN LoadMatches(dir, filenames, n + 1, configs, out)
      ELSE
        LET path == join(dir, filename)
            r == load_config_file(path, warn_fatal, out)
        IN
        IF r.exc # "none" THEN [exc |-> r.exc, value |-> configs, out |-> r.out]
        ELSE LoadMatches(dir, filenames, n + 1,
                         Append(configs, <<PyStr(path), r.value>>), r.out)

\* read_user_config: one round of "while True": the directory is listed,
\* its matching files are loaded, and the walk ends at the root or goes on
\* to the parent; the finally clause deletes warn_fatal when the walk ends
read_user_config_dir ==
    /\ pc = "walk"
    /\ LET dir == realpath(cur_dir)
           r == LoadMatches(dir, sorted(listdir(dir)), 1, user_configs, stderr)
       IN
         /\ listed' = Append(listed, dir)
         /\ user_configs' = r.value
         /\ stderr' = r.out
         /\ IF r.exc # "none"
            THEN /\ pc' = "raised"
                 /\ error' = r.exc
                 /\ warn_fatal' = "unset"
                 /\ cur_dir' = dir
            ELSE IF path_is_root(dir)
            THEN /\ pc' = "user_read"
                 /\ warn_fatal' = "unset"
                 /\ cur_dir' = dir
                 /\ UNCHANGED error
            ELSE /\ cur_dir' = split(dir)[1]
                 /\ UNCHANGED <<pc, error, warn_fatal>>
    /\ UNCHANGED <<inputs, config_keys, default_config, cl_config, key,
                   values, argi, call,
                   locals>>

----------------------------------------------------------------------------
(* read_command_line_arguments. *)

S_dashes == <<"-","-">>

RECURSIVE IsMapLoop(_, _, _, _, _, _)
\* the loop that decides is_map for a run of two or more values, from
\* value i on: the value is is_map, None after an inconsistent run
IsMapLoop(k, vals, i, is_map, wf, out) ==
    IF i > Len(vals) THEN Returned(is_map, out)
    ELSE
      LET has == PyBool(Contains(vals[i].v, <<"=">>)) IN
      IF ~In(is_map, PyList(<<PyNone, has>>)) THEN
        LET w == warn(wf, out,
                      Msg("Ignoring command-line setting of key '{}' due to inconsistent args '{}' and '{}'",
                          <<Str(k), vals[1].v, vals[i].v>>, NoContext, <<>>)) IN
        IF w.exc # "none" THEN Raised(w.exc, w.out)
        ELSE Returned(PyNone, w.out)
      ELSE IsMapLoop(k, vals, i + 1, has, wf, out)

\* re.match(r"^(.*?)=(.*)$", value).groups(), for a value that holds "="
groups(value) ==
    LET i == CHOOSE i \in 1..Len(value) :
                value[i] = "=" /\ \A j \in 1..(i - 1) : value[j] # "="
    IN <<SubSeq(value, 1, i - 1), SubSeq(value, i + 1, Len(value))>>

RECURSIVE ValueMapLoop(_, _, _, _)
\* the loop that builds value_map, from value i on: groups()[1:3] is
\* unpacked into subkey and val
ValueMapLoop(vals, i, value_map, out) ==
    IF i > Len(vals) THEN Returned(value_map, out)
    ELSE
      LET picked == Slice(groups(vals[i].v), 1, 3) IN
      IF Len(picked) # 2 THEN Raised("ValueError", out)
      ELSE ValueMapLoop(vals, i + 1,
                        DictSet(value_map, PyStr(picked[1]), PyStr(picked[2])),
                        out)

\* the body of "if arg.startswith("--") or arg is None", up to the test
\* "if arg is None": the value is cl_config with the pending run assigned
Flush(k, vals, config, wf, out) ==
    IF Len(vals) >= 2 THEN
      LET m == IsMapLoop(k, vals, 1, PyNone, wf, out) IN
      IF m.exc # "none" THEN m
      ELSE IF m.value = True THEN
        LET v == ValueMapLoop(vals, 1, PyDict(<<>>), m.out) IN
        IF v.exc # "none" THEN v
        ELSE Returned(DictSet(config, k, v.value), v.out)
      ELSE Returned(config, m.out)
    ELSE IF Len(vals) = 1 THEN Returned(DictSet(config, k, vals[1]), out)
    ELSE Returned(DictSet(config, k, PyNone), out)

\* read_command_line_arguments, up to the loop
read_command_line_arguments ==
    /\ pc = "user_read"
    /\ cl_config' = PyDict(<<>>)
    /\ key' = PyNone
    /\ values' = <<>>
    /\ argi' = 1
    /\ pc' = "args"
    /\ UNCHANGED <<inputs, config_keys, default_config, user_configs,
                   warn_fatal, stderr, error, cur_dir, listed, call,
                   locals>>

\* args + [None]
ArgsAndNone == [i \in 1..Len(argv) |-> PyStr(argv[i])] \o <<PyNone>>

\* read_command_line_arguments: one round of "for arg in args + [None]";
\* the round that breaks also runs the loop over cl_config.values() and
\* returns
read_command_line_arguments_arg ==
    /\ pc = "args"
    /\ LET arg == ArgsAndNone[argi]
           f == Flush(key, values, cl_config, warn_fatal, stderr)
           g == FilterLoop(f.value, 1,
                           "Ignoring unknown key '{}' from command-line arguments",
                           <<>>, warn_fatal, f.out)
           w == warn(warn_fatal, stderr,
                     Msg("Ignoring arg '{}' with no key specified",
                         <<Str(arg)>>, NoContext, <<>>))
       IN
       \* arg.startswith: None has no such attribute
       IF arg.t # "str" THEN
         /\ pc' = "raised" /\ error' = "AttributeError"
         /\ UNCHANGED <<cl_config, key, values, argi, stderr>>
       ELSE IF StartsWith(arg.v, S_dashes) \/ arg = PyNone THEN
         IF f.exc # "none" THEN
           /\ pc' = "raised" /\ error' = f.exc /\ stderr' = f.out
           /\ UNCHANGED <<cl_config, key, values, argi>>
         ELSE IF arg = PyNone THEN
           IF g.exc # "none" THEN
             /\ pc' = "raised" /\ error' = g.exc /\ stderr' = g.out
             /\ cl_config' = f.value
             /\ UNCHANGED <<key, values, argi>>
           ELSE
             /\ pc' = "cl_read" /\ cl_config' = g.value /\ stderr' = g.out
             /\ UNCHANGED <<error, key, values, argi>>
         ELSE
           /\ cl_config' = f.value /\ stderr' = f.out
           /\ key' = PyStr(Drop(arg.v, 2))
           /\ values' = <<>>
           /\ argi' = argi + 1
           /\ UNCHANGED <<pc, error>>
       ELSE IF key = PyNone THEN
         IF w.exc # "none" THEN
           /\ pc' = "raised" /\ error' = w.exc
           /\ UNCHANGED <<cl_config, key, values, argi, stderr>>
         ELSE
           /\ stderr' = w.out /\ argi' = argi + 1
           /\ UNCHANGED <<pc, error, cl_config, key, values>>
       ELSE
         /\ values' = Append(values, arg)
         /\ argi' = argi + 1
         /\ UNCHANGED <<pc, error, cl_config, key, stderr>>
    /\ UNCHANGED <<inputs, config_keys, default_config, user_configs,
                   warn_fatal, cur_dir, listed, call,
                   locals>>

----------------------------------------------------------------------------
(* The inputs of the program and the specifications of its construction. *)

S_tags == <<"t","a","g","s">>
S_bogus == <<"b","o","g","u","s">>
\* desc.json: the recognised keys, each with a description
Schema == PyDict(<< <<PyStr(S_class), PyStr(<<"d">>)>>,
                    <<PyStr(S_tags), PyStr(<<"d">>)>> >>)
SchemaList == PyList(<<PyStr(S_class), PyStr(S_tags)>>)
DescContents == {Schema, SchemaList, Malformed}
\* pset.json of the repository: the default config
DefaultContents ==
    {PyDict(<<>>),
     OneKey(PyStr(S_class), ElemA),
     OneKey(PyStr(S_class), PyStr(S_tags)),
     OneKey(PyStr(S_bogus), PyStr(S_tags)),
     PyList(<<ElemA>>),
     Malformed}
\* what a discovered file holds
FileContent == PyDict(<< <<PyStr(S_class), ElemB>>, <<PyStr(S_bogus), ElemA>> >>)

\* the file system that holds the files "pairs" names, each <<path, content>>
MakeFs(pairs) ==
    [q \in {pr[1] : pr \in pairs} |-> (CHOOSE pr \in pairs : pr[1] = q)[2]]
\* none or one file at path, with any of contents
OneOrNoFile(path, contents) == {{}} \cup {{<<path, c>>} : c \in contents}

RECURSIVE DirAt(_)
\* the directory d levels below the root
DirAt(d) ==
    IF d = 0 THEN <<"/">>
    ELSE IF d = 1 THEN <<"/">> \o S_class
    ELSE DirAt(d - 1) \o <<"/","w">>
Cwds == {DirAt(d) : d \in 0..MaxDepth}
CandidateNames == {S_dot_pset \o <<".">> \o S_json,
                   S_pset \o <<".">> \o S_json,
                   S_pset \o <<".">> \o S_yml}
CandidatePaths == {join(dir, name) : dir \in Cwds, name \in CandidateNames}

ArgTokens == {S_dashes \o S_tags, S_dashes \o <<"x">>,
              <<"a","=","1">>, <<"b","=","2">>, <<"b">>}
Argvs == UNION {[1..n -> ArgTokens] : n \in 0..MaxArgs}

\* nothing of the Config object exists yet
Blank ==
    /\ config_keys = Unset
    /\ default_config = Unset
    /\ user_configs = <<>>
    /\ cl_config = Unset
    /\ warn_fatal = "unset"
    /\ stderr = <<>>
    /\ error = "none"
    /\ cur_dir = <<>>
    /\ listed = <<>>
    /\ key = Unset
    /\ values = <<>>
    /\ argi = 0
    /\ call = NoCall
    /\ locals = NoLocals

\* the program is started: Config() is about to run
Init ==
    /\ YAML_AVAILABLE \in BOOLEAN
    /\ cwd \in Cwds
    /\ argv \in {a \in Argvs : Len(a) <= 1}
    /\ \E d \in OneOrNoFile(repository_file(S_desc_json), DescContents),
          f \in OneOrNoFile(repository_file(S_pset_json), DefaultContents),
          u \in OneOrNoFile(join(cwd, S_pset \o <<".">> \o S_json), {FileContent}) :
          fs = MakeFs(d \cup f \cup u)
    /\ pc = "start"
    /\ Blank

\* Config.__init__ as far as it gets: read_default_config never returns
Next ==
    \/ read_config_descriptions
    \/ read_default_config

Spec == Init /\ [][Next]_vars

\* read_user_config is entered: the schema and a default config are in place
InitUserConfig ==
    /\ YAML_AVAILABLE \in BOOLEAN
    /\ cwd \in Cwds
    /\ argv = <<>>
    /\ \E u \in SUBSET (CandidatePaths \X {FileContent}) : fs = MakeFs(u)
    /\ pc = "default_read"
    /\ config_keys = Schema
    /\ default_config = OneKey(PyStr(S_class), ElemA)
    /\ user_configs = <<>>
    /\ cl_config = Unset
    /\ warn_fatal = "unset"
    /\ stderr = <<>>
    /\ error = "none"
    /\ cur_dir = <<>>
    /\ listed = <<>>
    /\ key = Unset
    /\ values = <<>>
    /\ argi = 0
    /\ call = NoCall
    /\ locals = NoLocals

NextUserConfig ==
    \/ read_user_config
    \/ read_user_config_dir

\* the discovery of override files, run on its own
SpecUserConfig == InitUserConfig /\ [][NextUserConfig]_vars

\* read_command_line_arguments is entered: the schema, a default config and
\* the discovered sources are in place, and warn_fatal has been deleted
InitCommandLine ==
    /\ YAML_AVAILABLE = TRUE
    /\ cwd = <<"/">>
    /\ argv \in Argvs
    /\ fs = MakeFs({})
    /\ pc = "user_read"
    /\ config_keys \in {Schema, SchemaList}
    /\ default_config = OneKey(PyStr(S_class), ElemA)
    /\ user_configs = <<>>
    /\ cl_config = Unset
    /\ warn_fatal = "unset"
    /\ stderr = <<>>
    /\ error = "none"
    /\ cur_dir = <<>>
    /\ listed = <<>>
    /\ key = Unset
    /\ values = <<>>
    /\ argi = 0
    /\ call = NoCall
    /\ locals = NoLocals

NextCommandLine ==
    \/ read_command_line_arguments
    \/ read_command_line_arguments_arg

\* the parsing of the command line, run on its own
SpecCommandLine == InitCommandLine /\ [][NextCommandLine]_vars

----------------------------------------------------------------------------
(* generate_document. *)

S_font_size == <<"f","o","n","t","-","s","i","z","e">>
S_fancy_math == <<"f","a","n","c","y","-","m","a","t","h">>
S_indent_paragraphs == <<"i","n","d","e","n","t","-","p","a","r","a","g","r","a","p","h","s">>
S_clearpage_option == <<"c","l","e","a","r","p","a","g","e","-","o","p","t","i","o","n">>
S_problem_macro == <<"p","r","o","b","l","e","m","-","m","a","c","r","o">>
S_solution_macro == <<"s","o","l","u","t","i","o","n","-","m","a","c","r","o">>
S_fancy_marginals == <<"f","a","n","c","y","-","m","a","r","g","i","n","a","l","s">>
S_margin == <<"m","a","r","g","i","n">>
S_problems == <<"p","r","o","b","l","e","m","s">>
FontSizes == <<PyStr(<<"1","0">>), PyStr(<<"1","1">>), PyStr(<<"1","2">>)>>

\* the names an instance of Config has: its methods and, after __init__,
\* its four fields
ConfigAttributes ==
    {"read_config_descriptions", "read_default_config", "read_user_config",
     "load_config_file", "warn", "read_command_line_arguments", "get_boolean",
     "get_string", "get_length", "get_enum", "get_string_list",
     "get_enum_list", "get_enum_enum_map", "get",
     "config_keys", "default_config", "user_configs", "cl_config"}
\* what config.name raises
Attribute(name) == IF name \in ConfigAttributes THEN "none" ELSE "AttributeError"
\* config.ignored(key, reason) and config.warn_unused()
ignored == Attribute("ignored")
warn_unused == Attribute("warn_unused")
\* config.get_enum_list(key, unique=True): allowed_values has no default
get_enum_list_unique_only == "TypeError"

\* bool(val)
Truthy(val) ==
    CASE val.t = "bool" -> val.v
      [] val.t = "int" -> val.v # 0
      [] val.t \in {"str", "list", "dict"} -> Len(val.v) > 0
      [] OTHER -> FALSE

\* a statement of generate_document that starts with a lookup: the getter's
\* call is recorded and what it printed is added to stderr; the function
\* goes on at next, or ends with exc, with its locals as they are by then
DocGoes(name, k, conv, r, exc, next, new_locals) ==
    /\ call' = [getter |-> name, key |-> k, conv |-> conv,
                exc |-> r.exc, value |-> r.value]
    /\ stderr' = stderr \o r.out
    /\ warn_fatal' = "unset"
    /\ locals' = new_locals
    /\ IF exc = "none"
       THEN pc' = next /\ UNCHANGED error
       ELSE pc' = "raised" /\ error' = exc
    /\ UNCHANGED <<inputs, config_keys, default_config, user_configs,
                   cl_config, cur_dir, listed, key, values, argi>>

\* font_size = config.get_enum("font-size", ["10", "11", "12"]), and
\* font_size + "pt" is appended to the options: None + "pt" is a TypeError
doc_font_size ==
    /\ pc = "doc_font_size"
    /\ \E r \in {get(PyStr(S_font_size), Conv("get_enum", <<>>, FontSizes, FALSE))} :
       LET conv == Conv("get_enum", <<>>, FontSizes, FALSE)
           exc == IF r.exc # "none" THEN r.exc
                  ELSE IF r.value.t # "str" THEN "TypeError"
                  ELSE "none"
       IN DocGoes("get_enum", PyStr(S_font_size), conv, r, exc, "doc_fancy_math",
                  IF exc = "none"
                  THEN [locals EXCEPT !.document_class_options =
                                          Append(@, r.value.v \o <<"p","t">>)]
                  ELSE locals)

\* if config.get_boolean("fancy-math"): two packages are added
doc_fancy_math ==
    /\ pc = "doc_fancy_math"
    /\ \E r \in {get(PyStr(S_fancy_math), Conv("get_boolean", <<>>, <<>>, FALSE))} :
       LET conv == Conv("get_boolean", <<>>, <<>>, FALSE)
       IN DocGoes("get_boolean", PyStr(S_fancy_math), conv, r, r.exc, "doc_indent_paragraphs",
                  IF r.exc = "none" /\ Truthy(r.value)
                  THEN [locals EXCEPT !.packages = @ \o <<"amsmath", "amssymb">>]
                  ELSE locals)

\* if not config.get_boolean("indent-paragraphs"): parskip is added
doc_indent_paragraphs ==
    /\ pc = "doc_indent_paragraphs"
    /\ \E r \in {get(PyStr(S_indent_paragraphs), Conv("get_boolean", <<>>, <<>>, FALSE))} :
       LET conv == Conv("get_boolean", <<>>, <<>>, FALSE)
       IN DocGoes("get_boolean", PyStr(S_indent_paragraphs), conv, r, r.exc, "doc_clearpage_option",
                  IF r.exc = "none" /\ ~Truthy(r.value)
                  THEN [locals EXCEPT !.packages = Append(@, "parskip")]
                  ELSE locals)

\* if config.get_boolean("clearpage-option"): an if and a macro are added
doc_clearpage_option ==
    /\ pc = "doc_clearpage_option"
    /\ \E r \in {get(PyStr(S_clearpage_option), Conv("get_boolean", <<>>, <<>>, FALSE))} :
       LET conv == Conv("get_boolean", <<>>, <<>>, FALSE)
       IN DocGoes("get_boolean", PyStr(S_clearpage_option), conv, r, r.exc, "doc_problem_macro",
                  IF r.exc = "none" /\ Truthy(r.value)
                  THEN [locals EXCEPT !.ifs = @ \cup {"clearpage"},
                                      !.macros = @ \cup {"maybeclearpage"}]
                  ELSE locals)

\* if config.get_boolean("problem-macro"): the macro is added
doc_problem_macro ==
    /\ pc = "doc_problem_macro"
    /\ \E r \in {get(PyStr(S_problem_macro), Conv("get_boolean", <<>>, <<>>, FALSE))} :
       LET conv == Conv("get_boolean", <<>>, <<>>, FALSE)
       IN DocGoes("get_boolean", PyStr(S_problem_macro), conv, r, r.exc, "doc_solution_macro",
                  IF r.exc = "none" /\ Truthy(r.value)
                  THEN [locals EXCEPT !.macros = @ \cup {"problem"}]
                  ELSE locals)

\* if config.get_boolean("solution-macro"): the macro is added
doc_solution_macro ==
    /\ pc = "doc_solution_macro"
    /\ \E r \in {get(PyStr(S_solution_macro), Conv("get_boolean", <<>>, <<>>, FALSE))} :
       LET conv == Conv("get_boolean", <<>>, <<>>, FALSE)
       IN DocGoes("get_boolean", PyStr(S_solution_macro), conv, r, r.exc, "doc_fancy_marginals",
                  IF r.exc = "none" /\ Truthy(r.value)
                  THEN [locals EXCEPT !.macros = @ \cup {"solution"}]
                  ELSE locals)

\* if config.get_boolean("fancy-marginals"): fancyhdr is added and
\* get_enum_list is called without allowed_values; else config.ignored is
\* called. Neither branch returns, so no later statement of
\* generate_document is reached
doc_fancy_marginals ==
    /\ pc = "doc_fancy_marginals"
    /\ \E r \in {get(PyStr(S_fancy_marginals), Conv("get_boolean", <<>>, <<>>, FALSE))} :
       LET conv == Conv("get_boolean", <<>>, <<>>, FALSE)
           exc == IF r.exc # "none" THEN r.exc
                  ELSE IF Truthy(r.value) THEN get_enum_list_unique_only
                  ELSE ignored
       IN DocGoes("get_boolean", PyStr(S_fancy_marginals), conv, r, exc,
                  "doc_fancy_page_layout",
                  IF r.exc = "none" /\ Truthy(r.value)
                  THEN [locals EXCEPT !.packages = Append(@, "fancyhdr")]
                  ELSE locals)

\* the keys desc.json describes
DocumentKeys ==
    <<S_font_size, S_fancy_math, S_indent_paragraphs, S_clearpage_option,
      S_problem_macro, S_solution_macro, S_fancy_marginals, S_margin,
      S_problems>>
DocumentSchema ==
    PyDict([i \in 1..Len(DocumentKeys) |-> <<PyStr(DocumentKeys[i]), PyStr(<<"d">>)>>])
\* a default config that sets the font size and the six switches
DocumentDefault(font_size, switches) ==
    PyDict(<< <<PyStr(S_font_size), font_size>> >>
           \o [i \in 1..Len(switches) |-> <<PyStr(DocumentKeys[i + 1]), PyBool(switches[i])>>])
DocumentDefaults ==
    {EmptyDict}
      \cup {DocumentDefault(f, sw) : f \in {FontSizes[3], PyStr(<<"1","3">>)},
                                     sw \in [{1, 2, 3, 4, 5, 6} -> BOOLEAN]}
DocumentClConfigs ==
    {EmptyDict,
     OneKey(PyStr(S_fancy_math), PyStr(S_yes)),
     OneKey(PyStr(S_fancy_math), PyStr(S_no)),
     OneKey(PyStr(S_font_size), PyInt(11))}

\* generate_document(config) is entered with a constructed Config
InitDocument ==
    /\ YAML_AVAILABLE = TRUE
    /\ fs = MakeFs({})
    /\ cwd = <<"/">>
    /\ argv = <<>>
    /\ config_keys = DocumentSchema
    /\ cl_config \in DocumentClConfigs
    /\ user_configs = <<>>
    /\ default_config \in DocumentDefaults
    /\ warn_fatal = "unset"
    /\ stderr = <<>>
    /\ pc = "doc_font_size"
    /\ error = "none"
    /\ cur_dir = <<>>
    /\ listed = <<>>
    /\ key = Unset
    /\ values = <<>>
    /\ argi = 0
    /\ call = NoCall
    /\ locals = NoLocals

NextDocument ==
    \/ doc_font_size
    \/ doc_fancy_math
    \/ doc_indent_paragraphs
    \/ doc_clearpage_option
    \/ doc_problem_macro
    \/ doc_solution_macro
    \/ doc_fancy_marginals

\* a resolution run: generate_document as far as it gets
SpecDocument == InitDocument /\ [][NextDocument]_vars

----------------------------------------------------------------------------
(* Properties of the accessor (SpecGet). *)

Called == call.getter # "none"
ClContext == Context(" from command-line arguments", <<>>)
DefaultContext == Context(" from default config", <<>>)
\* the coercion of the call applied to val alone, under a non-strict or a
\* strict source
Coerced(val, context, wf) == Convert(call.conv, call.key, val, context, wf, <<>>)
\* the discovered sources that define the key looked up, nearest first
Defining == {i \in 1..Len(user_configs) : DictHas(user_configs[i][2], call.key)}
\* those whose value the call's coercion accepts
Coercing ==
    {i \in Defining :
        Coerced(DictGet(user_configs[i][2], call.key),
                Context(" from '{}'", <<Str(user_configs[i][1])>>),
                "False").exc = "none"}
Nearest(I) == CHOOSE i \in I : \A j \in I : i <= j

\* C1: when the command line defines the key and its value coerces, get
\* returns that coercion, whatever the discovered files and the default hold
C1_CommandLineWins ==
    (Called /\ DictHas(cl_config, call.key)) =>
        LET r == Coerced(DictGet(cl_config, call.key), ClContext, "False") IN
        r.exc = "none" =>
            /\ call.exc = "none"
            /\ call.value = r.value
            /\ stderr = r.out

\* a get_enum call answered from the command line while a discovered file
\* and the default config define the same key, the default differently
C1_Witness ==
    /\ call.getter = "get_enum"
    /\ DictHas(cl_config, call.key)
    /\ Defining # {}
    /\ DictHas(default_config, call.key)
    /\ call.exc = "none"
    /\ call.value = DictGet(cl_config, call.key)
    /\ call.value # DictGet(default_config, call.key)

\* C2: with the key absent from the command line and present in discovered
\* sources and in the default, get returns the coerced value of the nearest
\* discovered source whose value coerces
C2_NearestDiscoveredWins ==
    (/\ Called
     /\ ~DictHas(cl_config, call.key)
     /\ DictHas(default_config, call.key)
     /\ Coercing # {}) =>
        /\ call.exc = "none"
        /\ call.value =
             Coerced(DictGet(user_configs[Nearest(Coercing)][2], call.key),
                     Context(" from '{}'",
                             <<Str(user_configs[Nearest(Coercing)][1])>>),
                     "False").value

\* C3: a conversion failure of the command-line value is recorded as a
\* warning naming the source and the value, does not abort the lookup, and
\* the next source that coerces (here the default, when no file defines the
\* key) supplies the result
C3_FailedCoercionFallsThrough ==
    (/\ Called
     /\ DictHas(cl_config, call.key)
     /\ Coerced(DictGet(cl_config, call.key), ClContext, "False").exc
            = "ConfigConversionError") =>
        /\ \E i \in 1..Len(stderr) :
              /\ stderr[i].context = ClContext
              /\ stderr[i].args = <<Str(DictGet(cl_config, call.key)), Str(call.key)>>
        /\ (/\ Defining = {}
            /\ DictHas(default_config, call.key)
            /\ Coerced(DictGet(default_config, call.key), DefaultContext,
                       "True").exc = "none") =>
              /\ call.exc = "none"
              /\ call.value = Coerced(DictGet(default_config, call.key),
                                      DefaultContext, "True").value

\* C4: a key defined by the default config alone is answered with the
\* coercion of the default's value, without an error, whatever files were
\* discovered and wherever
C4_DefaultAlone ==
    (/\ Called
     /\ ~DictHas(cl_config, call.key)
     /\ Defining = {}
     /\ DictHas(default_config, call.key)
     /\ Coerced(DictGet(default_config, call.key), DefaultContext,
                "True").exc = "none") =>
        /\ call.exc = "none"
        /\ call.value = Coerced(DictGet(default_config, call.key),
                                DefaultContext, "True").value

\* the boolean coercion as the claim states it; "fail" is a conversion failure
BooleanOf(val) ==
    IF val \in {True, False, PyNone} THEN val
    ELSE IF Lower(Str(val)) \in TrueWords THEN True
    ELSE IF Lower(Str(val)) \in FalseWords THEN False
    ELSE [t |-> "fail", v |-> <<>>]

\* C9: get_boolean passes true, false and the absent value through, turns
\* the words y/yes/true/on/1 in any letter case into true and n/no/false/off/0
\* in any letter case into false, and fails on every other value
C9_BooleanCoercion ==
    (call.getter = "get_boolean" /\ DictHas(cl_config, call.key)) =>
        LET want == BooleanOf(DictGet(cl_config, call.key)) IN
        IF want.t = "fail" THEN call.exc # "none"
        ELSE call.exc = "none" /\ PyEq(call.value, want)

\* the raw value a call that returned was answered from
Answering ==
    IF DictHas(cl_config, call.key) THEN DictGet(cl_config, call.key)
    ELSE DictGet(default_config, call.key)
Stringified(raw) == [i \in 1..Len(raw) |-> PyStr(Str(raw[i]))]
Allowed(val) == \E j \in 1..Len(call.conv.allowed_values) :
                    call.conv.allowed_values[j] = val
\* positions of allowed values seen for the first time, and seen again
FirstAt(s) == {i \in 1..Len(s) : Allowed(s[i]) /\ \A j \in 1..(i - 1) : s[j] # s[i]}
AgainAt(s) == {i \in 1..Len(s) : Allowed(s[i]) /\ \E j \in 1..(i - 1) : s[j] = s[i]}
Pick(s, I) ==
    [n \in 1..Cardinality(I) |->
        s[CHOOSE i \in I : Cardinality({j \in I : j < i}) = n - 1]]
DuplicateWarnings ==
    {i \in 1..Len(stderr) :
        stderr[i].text = "ignoring duplicate value '{}' for key '{}'"}

\* C10: get_enum_list with unique=true answers a raw list of a non-strict
\* source; whenever it returns a list, the list holds the allowed values in
\* order of first occurrence, none twice, and one duplicate warning was
\* printed for each repeated occurrence skipped
C10_UniqueEnumList ==
    (call.getter = "get_enum_list" /\ call.conv.unique) =>
        /\ (DictHas(cl_config, call.key)
              /\ DictGet(cl_config, call.key).t = "list") => call.exc = "none"
        /\ (call.exc = "none" /\ call.value.t = "list") =>
              LET s == Stringified(Answering.v) IN
              /\ \A i, j \in 1..Len(call.value.v) :
                    i # j => call.value.v[i] # call.value.v[j]
              /\ call.value.v = Pick(s, FirstAt(s))
              /\ Cardinality(DuplicateWarnings) = Cardinality(AgainAt(s))

\* a unique list lookup that kept two values and skipped a repeated one
C10_Witness ==
    /\ call.getter = "get_enum_list"
    /\ call.conv.unique
    /\ call.exc = "none"
    /\ call.value.t = "list"
    /\ Len(call.value.v) = 2
    /\ Cardinality(DuplicateWarnings) >= 1

----------------------------------------------------------------------------
(* Properties of the construction (Spec, SpecUserConfig, SpecCommandLine). *)

\* the keys of mapping m that the schema holds, and whether all are
SchemaKeysOnly(m) == \A i \in 1..Len(m.v) : In(m.v[i][1], config_keys)
\* read_default_config has ended, on a default file that holds a mapping
DefaultLoaded ==
    /\ pc \in {"default_read", "raised"}
    /\ config_keys # Unset
    /\ repository_file(S_pset_json) \in DOMAIN fs
    /\ fs[repository_file(S_pset_json)].t = "dict"

\* C5: every key of a source's final mapping is in the schema, and the keys
\* that are in the schema are kept with their values: once the default file,
\* a mapping, has been loaded, default_config is that mapping when all its
\* keys are in the schema, and the load has failed when one is not.
C5_SchemaKeysKept ==
    DefaultLoaded =>
        LET m == fs[repository_file(S_pset_json)] IN
        IF SchemaKeysOnly(m)
        THEN pc = "default_read" /\ default_config = m /\ SchemaKeysOnly(default_config)
        ELSE pc = "raised"

RECURSIVE Chain(_)
\* the directories from dir up to and including the root
Chain(dir) == IF path_is_root(dir) THEN <<dir>> ELSE <<dir>> \o Chain(split(dir)[1])
\* the candidate names in base-name/extension priority order
Candidates ==
    [n \in 1..(Len(CONFIG_ROOTS) * Len(CONFIG_EXTENSIONS)) |->
        CONFIG_ROOTS[((n - 1) \div Len(CONFIG_EXTENSIONS)) + 1] \o <<".">>
            \o CONFIG_EXTENSIONS[((n - 1) % Len(CONFIG_EXTENSIONS)) + 1]]
HasCandidate(dir) == \E n \in 1..Len(Candidates) : join(dir, Candidates[n]) \in DOMAIN fs
\* the first candidate that exists in dir
FirstCandidate(dir) ==
    join(dir, Candidates[CHOOSE n \in 1..Len(Candidates) :
                            /\ join(dir, Candidates[n]) \in DOMAIN fs
                            /\ \A m \in 1..(n - 1) : join(dir, Candidates[m]) \notin DOMAIN fs])
\* the files discovery is to record, nearest directory first
Discovered ==
    LET with == SelectSeq(Chain(cwd), HasCandidate) IN
    [i \in 1..Len(with) |-> FirstCandidate(with[i])]

\* C6: when discovery has ended, it has listed each directory from the
\* working directory up to the root exactly once, and it has recorded for
\* each directory that holds candidates the first of them in priority order
\* and nothing else, nearest directory first.
C6_OnePerDirectory ==
    pc \in {"user_read", "raised"} =>
        /\ pc = "user_read"
        /\ listed = Chain(cwd)
        /\ [i \in 1..Len(user_configs) |-> user_configs[i][1]]
             = [i \in 1..Len(Discovered) |-> PyStr(Discovered[i])]

IsFlag(i) == StartsWith(argv[i], S_dashes)
\* the position after the run of values that follows the flag at i
RunEnd(i) ==
    IF \E j \in (i + 1)..Len(argv) : IsFlag(j)
    THEN CHOOSE j \in (i + 1)..Len(argv) :
            IsFlag(j) /\ \A n \in (i + 1)..(j - 1) : ~IsFlag(n)
    ELSE Len(argv) + 1
Run(i) == SubSeq(argv, i + 1, RunEnd(i) - 1)
HasEquals(value) == Contains(value, <<"=">>)
Mixed(run) ==
    /\ Len(run) >= 2
    /\ \E n \in 1..Len(run) : HasEquals(run[n])
    /\ \E n \in 1..Len(run) : ~HasEquals(run[n])
RECURSIVE MapOf(_, _)
\* the mapping of a run whose values all hold "=", each split at its first
MapOf(run, n) ==
    IF n = 0 THEN PyDict(<<>>)
    ELSE DictSet(MapOf(run, n - 1), PyStr(groups(run[n])[1]), PyStr(groups(run[n])[2]))
\* what a run that is not mixed binds its key to
Bound(run) ==
    IF Len(run) = 0 THEN PyNone
    ELSE IF Len(run) = 1 THEN PyStr(run[1])
    ELSE IF HasEquals(run[1]) THEN MapOf(run, Len(run))
    ELSE PyList([n \in 1..Len(run) |-> PyStr(run[n])])
\* the flag at i names a key of the schema and is the last to name it
LastOfSchemaKey(i) ==
    /\ IsFlag(i)
    /\ In(PyStr(Drop(argv[i], 2)), config_keys)
    /\ \A j \in (i + 1)..Len(argv) : argv[j] # argv[i]

\* C7: when the parsing of a command line that starts with a flag and
\* names a key of the schema has ended, it has ended normally, and every flag of a schema key whose run is not mixed has bound
\* the key by the run: no value to None, one value to that string, values
\* with "=" to the mapping split at the first "=", values without to the
\* list of them.
C7_RunsBound ==
    (pc \in {"cl_read", "raised"} /\ Len(argv) > 0 /\ IsFlag(1)
                                   /\ \E i \in 1..Len(argv) : LastOfSchemaKey(i)) =>
        /\ pc = "cl_read"
        /\ \A i \in 1..Len(argv) :
             (LastOfSchemaKey(i) /\ ~Mixed(Run(i))) =>
                 /\ DictHas(cl_config, PyStr(Drop(argv[i], 2)))
                 /\ DictGet(cl_config, PyStr(Drop(argv[i], 2))) = Bound(Run(i))

\* the flags whose run is mixed and has been closed: the argument after
\* the run has been taken, or parsing has ended on it
ClosedMixed ==
    {i \in 1..Len(argv) :
        /\ IsFlag(i)
        /\ Mixed(Run(i))
        /\ pc \in {"args", "cl_read", "raised"}
        /\ (argi > RunEnd(i) \/ (argi = RunEnd(i) /\ pc # "args"))}
InconsistentWarnings ==
    {n \in 1..Len(stderr) :
        stderr[n].text = "Ignoring command-line setting of key '{}' due to inconsistent args '{}' and '{}'"}

\* C8: a run that mixes values with "=" and values without is dropped: when
\* it has been closed, parsing has not failed on it, one warning has been
\* printed for each such run, and a key that no other flag names is unbound.
C8_MixedRunDropped ==
    /\ Cardinality(InconsistentWarnings) = Cardinality(ClosedMixed)
    /\ \A i \in ClosedMixed :
         /\ ~(pc = "raised" /\ argi = RunEnd(i))
         /\ (\A j \in 1..Len(argv) : j # i => argv[j] # argv[i])
                => (cl_config # Unset => ~DictHas(cl_config, PyStr(Drop(argv[i], 2))))

\* the arguments before the first flag
LeadingArgs == {i \in 1..Len(argv) : \A j \in 1..i : ~IsFlag(j)}
\* those of them that have been taken: parsing is past them or ended on them
TakenLeading ==
    {i \in LeadingArgs :
        /\ pc \in {"args", "cl_read", "raised"}
        /\ (argi > i \/ (argi = i /\ pc # "args"))}
NoKeyWarnings ==
    {n \in 1..Len(stderr) : stderr[n].text = "Ignoring arg '{}' with no key specified"}

\* C13: an argument before the first flag is dropped with a warning that is
\* not fatal: when it has been taken, parsing has not failed on it, one
\* warning has been printed for each such argument, and as long as no flag
\* has been taken the command-line mapping binds nothing.
C13_LeadingArgsDropped ==
    /\ Cardinality(NoKeyWarnings) = Cardinality(TakenLeading)
    /\ \A i \in TakenLeading :
         /\ ~(pc = "raised" /\ argi = i)
         /\ (\A j \in 1..(argi - 1) : j <= Len(argv) => ~IsFlag(j))
                => cl_config = PyDict(<<>>)

----------------------------------------------------------------------------
(* The accessor is read-only (SpecGet). *)

\* the schema and the mappings of the sources
sources_state == <<config_keys, cl_config, user_configs, default_config>>
\* the lookup of the last call, made again in the current state
Again == get(call.key, call.conv)

\* C12: a getter call, whether it returns or fails, leaves the schema, the
\* command-line mapping, the discovered mappings and the default mapping
\* unchanged, and making the last lookup again gives what it gave.
C12_ReadOnly ==
    /\ [][sources_state' = sources_state]_vars
    /\ [](Called => (Again.exc = call.exc /\ Again.value = call.value))

\* a lookup has failed on a Config whose three kinds of source all hold a
\* mapping with a key
C12_Witness ==
    /\ Called
    /\ call.exc # "none"
    /\ Len(cl_config.v) > 0
    /\ Len(user_configs) > 0
    /\ Len(default_config.v) > 0

----------------------------------------------------------------------------
(* Properties of a resolution run (SpecDocument). *)

SchemaKeys == {config_keys.v[i][1] : i \in 1..Len(config_keys.v)}
\* the keys generate_document has looked up: its lookups are made in the
\* order of DocumentKeys, the last of them is the one call records
LookedUp ==
    IF ~Called THEN {}
    ELSE {PyStr(DocumentKeys[i]) :
            i \in 1..(CHOOSE n \in 1..Len(DocumentKeys) : PyStr(DocumentKeys[n]) = call.key)}
\* the keys that a warning on stderr is about, alone
Reported == {k \in SchemaKeys : \E n \in 1..Len(stderr) : stderr[n].args = <<k.v>>}

\* C11: when generate_document has ended, it has returned, and the keys
\* reported as unused on stderr are the schema keys that no getter looked
\* up during the run: each of them, and no key that was looked up.
C11_UnusedKeysReported ==
    pc \in {"doc_returned", "raised"} =>
        /\ pc = "doc_returned"
        /\ Reported = SchemaKeys \ LookedUp

====
